---- MODULE Spec2Model ----
(***************************************************************************)
(* Model of quiz_app.py: a Streamlit quiz.  Every user interaction reruns  *)
(* the script against st.session_state; an action below is one             *)
(* interaction: the widget callback (if any), the script run it triggers,  *)
(* and the run started by st.rerun() when the script asks for one.         *)
(***************************************************************************)
EXTENDS Integers, Sequences, FiniteSets, TLC

\* Largest number of rows in a chapter file of the modelled data set.
MaxLen == 3

None == "None"
Letters == <<"A", "B", "C">>
LetterSet == {"A", "B", "C"}

\* The nine chapter buttons of main() and the file each one selects.
Chapters == 1..9
CsvName == <<"chapter1.csv", "chapter2.csv", "chapter3.csv", "chapter4.csv",
             "chapter5.csv", "chapter6.csv", "chapter7.csv", "chapter8.csv",
             "chapter9.csv">>
ChapterOf(f) == CHOOSE c \in Chapters : CsvName[c] = f

(***************************************************************************)
(* The data files.  chapter9.csv does not exist, chapter8.csv does not     *)
(* parse, the others hold 0..MaxLen rows.  A row keeps the columns the     *)
(* script reads: question, the three option texts (labels: equal numbers   *)
(* mean equal texts, hence equal radio labels), correctAnswer, explanation.*)
(* The first row of chapter7.csv carries the correctAnswer "D".            *)
(***************************************************************************)
NumRows(c) == c % (MaxLen + 1)
Row(c, i) == [question |-> 10 * c + i,
              labels |-> 10 * c + (IF i = 1 THEN 1 ELSE 2),
              correctAnswer |-> IF c = 7 /\ i = 1 THEN "D"
                                ELSE Letters[((c + i) % 3) + 1],
              explanation |-> 10 * c + i]
read_csv(c) ==
  IF c = 9 THEN [error |-> "FileNotFoundError", rows |-> << >>]
  ELSE IF c = 8 THEN [error |-> "ParserError", rows |-> << >>]
  ELSE [error |-> None, rows |-> [i \in 1..NumRows(c) |-> Row(c, i)]]

\* load_questions: the frame, or st.error + st.stop() on the two exceptions.
load_questions(f) ==
  LET r == read_csv(ChapterOf(f))
  IN [stopped |-> r.error \in {"FileNotFoundError", "ParserError"},
      df |-> r.rows]

\* df.sample(frac=1).reset_index(drop=True): the rows in any order.
Permutations1(n) == {p \in [1..n -> 1..n] : \A i, j \in 1..n : i # j => p[i] # p[j]}
sample(df) == {[i \in 1..Len(df) |-> df[p[i]]] : p \in Permutations1(Len(df))}

VARIABLES
  csv_file,          \* st.session_state.csv_file: None or a file name
  shuffled_df,       \* st.session_state.shuffled_df: [set, rows]
  current_question,  \* st.session_state.current_question
  answered,          \* st.session_state.answered
  selected_answer,   \* st.session_state.selected_answer: None or a letter
  score,             \* st.session_state.score
  radio_answer,      \* widget state of the radio: [labels, value]
  page,              \* what the last run rendered: menu, question, finished, error
  q_shown,           \* q_idx of the question rendered (-1 when none)
  submit_disabled,   \* disabled= of the rendered Submit button
  feedback,          \* st.success/st.error/st.info of the last run
  score_bar,         \* what display_score_bar rendered in the last run
  event,             \* the interaction that led to this state
  pre,               \* the session fields and page when that interaction began
  scored_log         \* the q_idx of every submission scored in this attempt

vars == <<csv_file, shuffled_df, current_question, answered, selected_answer,
          score, radio_answer, page, q_shown, submit_disabled, feedback,
          score_bar, event, pre, scored_log>>

NoDf == [set |-> FALSE, rows |-> << >>]
NoRadio == [labels |-> 0, value |-> None]
NoFeedback == [shown |-> FALSE, correct |-> FALSE, question |-> 0, explanation |-> 0]
NoBar == [shown |-> FALSE, correct_count |-> 0, answered_count |-> 0, tenths |-> 0]

\* The session state and the rendered page as one value.
State == [csv_file |-> csv_file, shuffled_df |-> shuffled_df,
          current_question |-> current_question, answered |-> answered,
          selected_answer |-> selected_answer, score |-> score,
          radio_answer |-> radio_answer, page |-> page, q_shown |-> q_shown,
          submit_disabled |-> submit_disabled, feedback |-> feedback,
          score_bar |-> score_bar, rerun |-> FALSE]

\* A run starts from an empty page; widget state survives until the run ends.
BlankPage(s) == [s EXCEPT !.page = "menu", !.q_shown = -1,
                          !.submit_disabled = FALSE, !.feedback = NoFeedback,
                          !.score_bar = NoBar, !.rerun = FALSE]

\* display_score_bar: nothing when no question was answered, else the
\* counts and the percentage (kept in tenths of a percent, as printed).
display_score_bar(s) ==
  LET answered_count == s.current_question
      correct_count == s.score
  IN IF answered_count = 0 THEN NoBar
     ELSE [shown |-> TRUE, correct_count |-> correct_count,
           answered_count |-> answered_count,
           tenths |-> (correct_count * 1000) \div answered_count]

\* Variant of back_to_main_menu that forgets the score.
back_to_main_menu_keeps_score(s) ==
  [s EXCEPT !.csv_file = None, !.current_question = 0, !.answered = FALSE,
            !.selected_answer = None, !.rerun = TRUE]

\* The five assignments behind both "Back to Main Menu" buttons.
back_to_main_menu(s) ==
  [s EXCEPT !.csv_file = None, !.current_question = 0, !.answered = FALSE,
            !.selected_answer = None, !.score = 0, !.rerun = TRUE]

\* Variant of choose_chapter with the answered flag set instead of cleared.
choose_chapter_answered(s, c) ==
  [s EXCEPT !.csv_file = CsvName[c], !.current_question = 0, !.answered = TRUE,
            !.selected_answer = None, !.score = 0, !.rerun = TRUE]

\* The five assignments behind a chapter button.
choose_chapter(s, c) ==
  [s EXCEPT !.csv_file = CsvName[c], !.current_question = 0, !.answered = FALSE,
            !.selected_answer = None, !.score = 0, !.rerun = TRUE]

\* Variant of on_choice_change that leaves the flag alone.
on_choice_change_noop(s) == s

\* Variant of on_choice_change that also stores the new choice.
on_choice_change_stores(s) ==
  [s EXCEPT !.answered = FALSE, !.selected_answer = s.radio_answer.value]

\* on_change callback of the radio.
on_choice_change(s) == [s EXCEPT !.answered = FALSE]

\* Variant of submit_accepted without the answered guard.
submit_accepted_unguarded(submit_clicked, is_answered) == submit_clicked

\* "if submit_clicked and not st.session_state.answered"
submit_accepted(submit_clicked, is_answered) == submit_clicked /\ ~is_answered

\* "if next_clicked and st.session_state.answered"
next_accepted(next_clicked, is_answered) == next_clicked /\ is_answered

\* "if q_idx >= len(shuffled_df)"
all_done(q_idx, df) == q_idx >= Len(df)

\* Variant of submit_branch that does not advance current_question.
submit_branch_no_advance(s, q) ==
  LET ok == s.selected_answer = q.correctAnswer
      s1 == [s EXCEPT !.answered = TRUE,
                      !.score = IF ok THEN s.score + 1 ELSE s.score,
                      !.feedback = [shown |-> TRUE, correct |-> ok,
                                    question |-> q.question,
                                    explanation |-> q.explanation]]
  IN [s1 EXCEPT !.score_bar = display_score_bar(s1)]

\* Variant of submit_branch that scores every submission.
submit_branch_always_scores(s, q) ==
  LET ok == s.selected_answer = q.correctAnswer
      s1 == [s EXCEPT !.answered = TRUE,
                      !.current_question = s.current_question + 1,
                      !.score = s.score + 1,
                      !.feedback = [shown |-> TRUE, correct |-> ok,
                                    question |-> q.question,
                                    explanation |-> q.explanation]]
  IN [s1 EXCEPT !.score_bar = display_score_bar(s1)]

\* Variant of submit_branch that does not set the answered flag.
submit_branch_not_answered(s, q) ==
  LET ok == s.selected_answer = q.correctAnswer
      s1 == [s EXCEPT !.current_question = s.current_question + 1,
                      !.score = IF ok THEN s.score + 1 ELSE s.score,
                      !.feedback = [shown |-> TRUE, correct |-> ok,
                                    question |-> q.question,
                                    explanation |-> q.explanation]]
  IN [s1 EXCEPT !.score_bar = display_score_bar(s1)]

\* The body of the Submit branch; q is the row at q_idx.
submit_branch(s, q) ==
  LET ok == s.selected_answer = q.correctAnswer
      s1 == [s EXCEPT !.answered = TRUE,
                      !.current_question = s.current_question + 1,
                      !.score = IF ok THEN s.score + 1 ELSE s.score,
                      !.feedback = [shown |-> TRUE, correct |-> ok,
                                    question |-> q.question,
                                    explanation |-> q.explanation]]
  IN [s1 EXCEPT !.score_bar = display_score_bar(s1)]

\* The body of the Next branch.
next_branch(s) == [s EXCEPT !.selected_answer = None, !.rerun = TRUE]

\* Variant of next_step in which Next Question itself moves to the next
\* question, answered or not.
next_step_advances(s, clicked) ==
  IF clicked = "next"
  THEN [s EXCEPT !.current_question = s.current_question + 1,
                 !.selected_answer = None, !.rerun = TRUE]
  ELSE s

\* "If Next Question clicked, move on (rerun)": guard and branch.
next_step(s, clicked) ==
  IF next_accepted(clicked = "next", s.answered) THEN next_branch(s) ELSE s

\* Variant of needs_shuffle that shuffles on every run.
needs_shuffle_always(s) == TRUE

\* 'if "shuffled_df" not in st.session_state'
needs_shuffle(s) == ~s.shuffled_df.set

\* st.radio(labels, index=0, key="radio_answer"): the stored choice when the
\* widget drawn is the one the choice was made on, else the first option.
radio(s, q) ==
  IF s.radio_answer.value # None /\ s.radio_answer.labels = q.labels
  THEN s.radio_answer
  ELSE [labels |-> q.labels, value |-> Letters[1]]

\* quiz(): clicked is the button pressed ("none", "submit", "next", "back"),
\* order the outcome of the shuffle should one be taken.
quiz(s0, clicked, order) ==
  LET ld == load_questions(s0.csv_file)
  IN IF needs_shuffle(s0) /\ ld.stopped
     THEN [s0 EXCEPT !.page = "error", !.radio_answer = NoRadio]
     ELSE
       LET s1 == IF needs_shuffle(s0)
                 THEN [s0 EXCEPT !.shuffled_df = [set |-> TRUE, rows |-> order]]
                 ELSE s0
           df == s1.shuffled_df.rows
           q_idx == s1.current_question
       IN IF all_done(q_idx, df)
          THEN LET s2 == [s1 EXCEPT !.page = "finished",
                                    !.score_bar = display_score_bar(s1),
                                    !.radio_answer = NoRadio]
               IN IF clicked = "back" THEN back_to_main_menu(s2) ELSE s2
          ELSE
            LET q == df[q_idx + 1]
                w == radio(s1, q)
                s2 == [s1 EXCEPT !.page = "question", !.q_shown = q_idx,
                                 !.radio_answer = w,
                                 !.selected_answer = w.value,
                                 !.submit_disabled = s1.answered]
                s3 == IF submit_accepted(clicked = "submit", s2.answered)
                      THEN submit_branch(s2, q) ELSE s2
                s4 == next_step(s3, clicked)
            IN IF s4.rerun THEN s4
               ELSE IF clicked = "back" THEN back_to_main_menu(s4) ELSE s4

\* main(): the menu while no file is chosen, else quiz().  chapter is the
\* chapter button pressed (0 when none).
main(s0, chapter, clicked, order) ==
  LET s == BlankPage(s0)
  IN IF s.csv_file = None
     THEN LET m == [s EXCEPT !.page = "menu", !.radio_answer = NoRadio]
          IN IF chapter \in Chapters THEN choose_chapter(m, chapter) ELSE m
     ELSE quiz(s, clicked, order)

\* One interaction: the run it triggers and the run st.rerun() starts.
script(s0, chapter, clicked, order) ==
  LET r == main(s0, chapter, clicked, order)
  IN IF r.rerun THEN main(r, 0, "none", order) ELSE r

\* The shuffles the run for file f may draw.
Orders(f) == IF f = None THEN {<< >>} ELSE sample(load_questions(f).df)

\* What an interaction starts from.
Snapshot == [csv_file |-> csv_file, rows |-> shuffled_df.rows,
             current_question |-> current_question, answered |-> answered,
             selected_answer |-> selected_answer, score |-> score, page |-> page]

Commit(r, e) ==
  /\ csv_file' = r.csv_file
  /\ shuffled_df' = r.shuffled_df
  /\ current_question' = r.current_question
  /\ answered' = r.answered
  /\ selected_answer' = r.selected_answer
  /\ score' = r.score
  /\ radio_answer' = r.radio_answer
  /\ page' = r.page
  /\ q_shown' = r.q_shown
  /\ submit_disabled' = r.submit_disabled
  /\ feedback' = r.feedback
  /\ score_bar' = r.score_bar
  /\ event' = e
  /\ pre' = Snapshot
  /\ scored_log' = IF r.csv_file = None \/ e = "selectChapter" THEN << >>
                   ELSE IF r.feedback.shown THEN Append(scored_log, r.q_shown)
                   ELSE scored_log

\* The __main__ block on a fresh session, then main(): the menu.
Init ==
  /\ csv_file = None
  /\ shuffled_df = NoDf
  /\ current_question = 0
  /\ answered = FALSE
  /\ selected_answer = None
  /\ score = 0
  /\ radio_answer = NoRadio
  /\ page = "menu"
  /\ q_shown = -1
  /\ submit_disabled = FALSE
  /\ feedback = NoFeedback
  /\ score_bar = NoBar
  /\ event = "start"
  /\ pre = [csv_file |-> None, rows |-> << >>, current_question |-> 0,
            answered |-> FALSE, selected_answer |-> None, score |-> 0,
            page |-> "menu"]
  /\ scored_log = << >>

\* A chapter button of the menu.
SelectChapter ==
  /\ page = "menu"
  /\ \E c \in Chapters : \E order \in Orders(CsvName[c]) :
       Commit(script(State, c, "none", order), "selectChapter")

\* The user picks another option of the radio on the page.
SelectOption ==
  /\ page = "question"
  /\ \E l \in LetterSet \ {radio_answer.value} :
       LET s == on_choice_change([State EXCEPT !.radio_answer.value = l])
       IN Commit(script(s, 0, "none", << >>), "selectOption")

\* The Submit button, when it was rendered enabled.
Submit ==
  /\ page = "question"
  /\ ~submit_disabled
  /\ Commit(script(State, 0, "submit", << >>), "submit")

\* The Next Question button.
NextQuestion ==
  /\ page = "question"
  /\ Commit(script(State, 0, "next", << >>), "next")

\* Either Back to Main Menu button.
Reset ==
  /\ page \in {"question", "finished"}
  /\ Commit(script(State, 0, "back", << >>), "reset")

Next == SelectChapter \/ SelectOption \/ Submit \/ NextQuestion \/ Reset

Spec == Init /\ [][Next]_vars

TypeOK ==
  /\ csv_file \in {None} \cup {CsvName[c] : c \in Chapters}
  /\ shuffled_df.set \in BOOLEAN
  /\ current_question \in 0..(MaxLen + 1)
  /\ answered \in BOOLEAN
  /\ selected_answer \in LetterSet \cup {None}
  /\ score \in 0..(MaxLen + 1)
  /\ page \in {"menu", "question", "finished", "error"}

\* The rows of the session's question order and their number.
questionOrder == shuffled_df.rows
length == Len(questionOrder)

\* a and b hold the same rows the same number of times.
Count(seq, x) == Cardinality({i \in 1..Len(seq) : seq[i] = x})
IsPermutation(a, b) ==
  /\ Len(a) = Len(b)
  /\ \A i \in 1..Len(b) : Count(a, b[i]) = Count(b, b[i])

----------------------------------------------------------------------------
\* C1: in every reachable state 0 <= score <= position <= length(questionOrder).
C1_ScoreBounds ==
  /\ 0 <= score
  /\ score <= current_question
  /\ current_question <= length

\* C1 witness: a quiz gone through to the end with right and wrong answers.
C1_Witness ==
  /\ score >= 1
  /\ score < current_question
  /\ current_question = length
  /\ event = "submit"

\* C2: after every successful selectChapter the question order is a
\* permutation of the list loaded for the chapter selected.
C2_OrderIsPermutationOfChapter ==
  (event = "selectChapter" /\ page # "error")
    => IsPermutation(questionOrder, load_questions(csv_file).df)

\* C3: a valid submit sets answered, advances position by one, adds one to
\* score exactly when the selected label is the correct label of the question
\* at the old position, and shows that question's verdict and explanation.
C3_SubmitEffects ==
  (event = "submit" /\ pre.page = "question" /\ ~pre.answered
     /\ pre.selected_answer # None /\ pre.current_question < Len(pre.rows))
    => LET q == pre.rows[pre.current_question + 1]
           ok == pre.selected_answer = q.correctAnswer
       IN /\ answered
          /\ current_question = pre.current_question + 1
          /\ score = pre.score + (IF ok THEN 1 ELSE 0)
          /\ questionOrder = pre.rows
          /\ page = "question"
          /\ q_shown = pre.current_question
          /\ feedback = [shown |-> TRUE, correct |-> ok,
                         question |-> q.question,
                         explanation |-> q.explanation]

\* C3 witness: a wrong answer submitted on a question that is not the last,
\* after a right one.
C3_Witness ==
  /\ event = "submit"
  /\ ~pre.answered
  /\ feedback.shown
  /\ ~feedback.correct
  /\ score = 1
  /\ current_question = 2
  /\ current_question < length

\* C4: next() with answered and position < length clears the selected label
\* and sets answered to false, so that submit is valid again.
C4_NextClearsAnswered ==
  (event = "next" /\ pre.answered /\ pre.current_question < Len(pre.rows))
    => /\ ~answered
       /\ selected_answer = None

\* C5 as stated: a submit made while answered leaves score, position,
\* answered and the selected label unchanged.
C5_SecondSubmitNoOp ==
  (event = "submit" /\ pre.answered)
    => /\ score = pre.score
       /\ current_question = pre.current_question
       /\ answered = pre.answered
       /\ selected_answer = pre.selected_answer

\* C5 amended: a submit made while answered leaves score, position and
\* answered unchanged.
C5_SecondSubmitKeepsScore ==
  (event = "submit" /\ pre.answered)
    => /\ score = pre.score
       /\ current_question = pre.current_question
       /\ answered = pre.answered

\* C5 witness: Submit pressed a second time on the feedback page of a
\* question answered correctly.
C5_Witness ==
  /\ event = "submit"
  /\ pre.answered
  /\ pre.score >= 1
  /\ page = "question"

\* C6: when the load fails during selectChapter no chapter is recorded as
\* selected and score and position are 0.
C6_FailedLoadStaysInMenu ==
  page = "error"
    => /\ csv_file = None
       /\ score = 0
       /\ current_question = 0

\* C7 as stated: selectOption while answered leaves answered, the selected
\* label, score and position unchanged.
C7_SelectWhileAnsweredNoOp ==
  (event = "selectOption" /\ pre.answered)
    => /\ answered = pre.answered
       /\ selected_answer = pre.selected_answer
       /\ score = pre.score
       /\ current_question = pre.current_question

\* C7 amended: selectOption while answered leaves score and position
\* unchanged and sets answered to false.
C7_SelectWhileAnsweredReopens ==
  (event = "selectOption" /\ pre.answered)
    => /\ ~answered
       /\ score = pre.score
       /\ current_question = pre.current_question

\* C7 witness: an option picked on the feedback page of an answered question.
C7_Witness ==
  /\ event = "selectOption"
  /\ pre.answered
  /\ pre.current_question >= 1
  /\ page = "question"

\* C8: reset from any state leads to the menu with score 0, position 0,
\* answered false and no selected label.
C8_ResetClearsFields ==
  event = "reset"
    => /\ page = "menu"
       /\ csv_file = None
       /\ score = 0
       /\ current_question = 0
       /\ ~answered
       /\ selected_answer = None

\* C8 witness: reset pressed on the feedback page of a question answered
\* correctly.
C8_Witness ==
  /\ event = "reset"
  /\ pre.score >= 1
  /\ pre.answered
  /\ pre.page = "question"

\* C9: after reset no field of the attempt keeps its value, the question
\* order included.
C9_ResetClearsQuestionOrder ==
  event = "reset"
    => /\ ~shuffled_df.set
       /\ questionOrder = << >>

\* C10 as stated: selectChapter sets score 0, position 0, answered false and
\* the selected label unset.
C10_SelectChapterClearsAll ==
  event = "selectChapter"
    => /\ score = 0
       /\ current_question = 0
       /\ ~answered
       /\ selected_answer = None

\* C10 amended: selectChapter sets score 0, position 0 and answered false;
\* the selected label is the first option A when a question is shown and
\* unset otherwise.
C10_SelectChapterClearsScore ==
  event = "selectChapter"
    => /\ score = 0
       /\ current_question = 0
       /\ ~answered
       /\ selected_answer = IF page = "question" THEN "A" ELSE None

\* C10 witness: a chapter with questions selected after an earlier attempt.
C10_Witness ==
  /\ event = "selectChapter"
  /\ page = "question"
  /\ shuffled_df.set
  /\ pre.page = "menu"
  /\ pre.rows # << >>

\* C11 as stated: answered is false right after every transition that
\* advances position and right after every chapter selection.
C11_AnsweredFalseAfterAdvance ==
  (current_question > pre.current_question \/ event = "selectChapter")
    => ~answered

\* C11 amended: answered is true right after every transition that advances
\* position (submit sets both), and false right after every chapter selection.
C11_AnsweredAfterAdvance ==
  /\ current_question > pre.current_question => answered
  /\ event = "selectChapter" => ~answered

\* C11 witness: a submit has just advanced position to the second question.
C11_Witness ==
  /\ event = "submit"
  /\ current_question = pre.current_question + 1
  /\ current_question = 2
  /\ current_question < length
  /\ answered

\* C12: no session holds a question whose correct label is outside A, B, C
\* (a file with such a record fails to load).
C12_OnlyValidQuestionsLoaded ==
  \A i \in 1..length : questionOrder[i].correctAnswer \in LetterSet

\* C13: next() while answered is false changes none of score, position,
\* answered, the selected label and the question order.
C13_NextWhenNotAnsweredNoOp ==
  (event = "next" /\ ~pre.answered)
    => /\ score = pre.score
       /\ current_question = pre.current_question
       /\ answered = pre.answered
       /\ selected_answer = pre.selected_answer
       /\ questionOrder = pre.rows

\* C13 witness: Next Question pressed on the second question with an option
\* other than the first selected and nothing submitted for it.
C13_Witness ==
  /\ event = "next"
  /\ ~pre.answered
  /\ pre.page = "question"
  /\ pre.current_question = 1
  /\ pre.selected_answer = "C"

\* C14: selecting a chapter with zero questions leads directly to Finished
\* (position 0 = length 0) with no score bar, and a score bar is only ever
\* computed from a positive number of answered questions.
C14_EmptyChapterFinishes ==
  /\ (event = "selectChapter" /\ ~load_questions(csv_file).stopped
        /\ load_questions(csv_file).df = << >>)
       => /\ page = "finished"
          /\ current_question = 0
          /\ length = 0
          /\ ~score_bar.shown
  /\ score_bar.shown => score_bar.answered_count > 0
  /\ current_question = 0 => ~score_bar.shown

\* C15 as stated: once position = length, no transition but reset changes
\* score, position, answered or the selected label.
C15_FinishedIsAbsorbing ==
  (pre.csv_file # None /\ pre.current_question = Len(pre.rows)
     /\ event # "reset")
    => /\ score = pre.score
       /\ current_question = pre.current_question
       /\ answered = pre.answered
       /\ selected_answer = pre.selected_answer

\* C15 amended: once position = length, no transition but reset changes
\* score, position or the selected label; submit and next leave answered
\* alone too, and selectOption sets it to false.
C15_FinishedKeepsScore ==
  (pre.csv_file # None /\ pre.current_question = Len(pre.rows)
     /\ event # "reset")
    => /\ score = pre.score
       /\ current_question = pre.current_question
       /\ selected_answer = pre.selected_answer
       /\ answered = IF event = "selectOption" THEN FALSE ELSE pre.answered

\* C15 witness: an option picked on the feedback page of the last question,
\* after a correct answer.
C15_Witness ==
  /\ event = "selectOption"
  /\ pre.csv_file # None
  /\ pre.current_question = Len(pre.rows)
  /\ pre.score >= 1
  /\ page = "finished"

\* C16: between a chapter selection and the next reset no selectOption,
\* submit or next changes the question order.
C16_OrderFixedInSession ==
  event \in {"selectOption", "submit", "next"}
    => /\ shuffled_df.set
       /\ questionOrder = pre.rows

\* C16 witness: Next Question pressed after a submit in a session whose
\* order differs from the order of the file.
C16_Witness ==
  /\ event = "next"
  /\ pre.answered
  /\ current_question = 1
  /\ length >= 2
  /\ questionOrder[1].question > questionOrder[2].question

\* A click on Submit changes nothing: the button is disabled, or the run it
\* triggers ends in the state and page it started from.
SubmitIdle == submit_disabled \/ script(State, 0, "submit", << >>) = State

\* A click on Next Question ends in the state and page it started from.
NextIdle == script(State, 0, "next", << >>) = State

\* C17: submit followed by next makes submit valid again for the next
\* question, so that n submits finish a chapter of n questions; no state
\* short of Finished has both submit and next without effect.
C17_SubmitNextProgress ==
  /\ (event = "next" /\ pre.answered /\ page = "question") => ~submit_disabled
  /\ (page = "question" /\ current_question < length)
       => ~(SubmitIdle /\ NextIdle)

\* C18: in one attempt no index of the question order is scored twice, and
\* position counts exactly the scored submissions.
C18_EachIndexScoredOnce ==
  /\ \A i, j \in 1..Len(scored_log) : i # j => scored_log[i] # scored_log[j]
  /\ csv_file # None => current_question = Len(scored_log)
  /\ score <= Len(scored_log)

\* C18 witness: a second question scored, which takes a selectOption to
\* re-enable Submit after the first was answered.
C18_Witness ==
  /\ event = "submit"
  /\ feedback.shown
  /\ Len(scored_log) = 2
  /\ score = 2
====
